---- MODULE Spec2Model ----
(***************************************************************************)
(* A model of phtorg: the photo organizer's planning pipeline              *)
(* (phtorg/organizer.py), its thread-pool task runner (phtorg/tpe.py) and  *)
(* the execution of the plan against a POSIX filesystem.                   *)
(*                                                                         *)
(* Python values are modelled as follows.                                  *)
(*   pathlib.Path   [parent |-> <<parts>>, stem |-> "..", suffix |-> ".."] *)
(*   datetime       [year, month, day, hour, minute, second, tzinfo]       *)
(*   None           NoneDt for a datetime, "None" for a str | None         *)
(*   PhotoInfo      [path, datetime, datetime_source, errors]              *)
(*   RenameTask     [photo_info, destination]                              *)
(*   an exception   [type |-> "..", msg |-> ".."]                          *)
(***************************************************************************)
EXTENDS Naturals, Integers, Sequences, FiniteSets, TLC

(***************************************************************************)
(* Bounds of the model.                                                    *)
(***************************************************************************)
\* how many files the filesystem holds when the first run starts
MaxFiles == 2
\* how many times the organizer is run (the second run is the re-run on dst)
MaxRuns == 2

(***************************************************************************)
(* phtorg/constants.py and the class attributes of PhotoOrganizer.         *)
(***************************************************************************)
DEFAULT_PREFIX == "IMG_"
SCREENSHOT_PREFIX == "Screenshot_"

pillow_exts == {".jpg", ".jpeg", ".heic"}
mediainfo_exts == {".mov", ".mp4", ".m4v"}
screenshot_exts == {".png", ".gif", ".bmp", ".webp"}
allowed_exts == pillow_exts \cup mediainfo_exts \cup screenshot_exts

\* the --timezone option; pytz zones print as their name
timezone == "America/Vancouver"

(***************************************************************************)
(* Strings and paths.                                                      *)
(***************************************************************************)
Digit == <<"0", "1", "2", "3", "4", "5", "6", "7", "8", "9">>

\* '%02d' and '%04d' as strftime prints them
Pad2(n) == Digit[((n \div 10) % 10) + 1] \o Digit[(n % 10) + 1]
Pad4(n) == Pad2(n \div 100) \o Pad2(n % 100)

\* str.lower() on the suffixes of the model
Lower(s) ==
    CASE s = ".JPG" -> ".jpg"
      [] s = ".PNG" -> ".png"
      [] s = ".TXT" -> ".txt"
      [] OTHER -> s

\* Path.name, Path.parts, Path.parent.name, str(Path)
Name(p) == p.stem \o p.suffix
Parts(p) == p.parent \o <<Name(p)>>
ParentName(p) == IF p.parent = <<>> THEN "" ELSE p.parent[Len(p.parent)]

RECURSIVE JoinParts(_)
JoinParts(parts) ==
    IF parts = <<>> THEN ""
    ELSE IF Len(parts) = 1 THEN parts[1]
    ELSE parts[1] \o "/" \o JoinParts(Tail(parts))

PathStr(p) == JoinParts(Parts(p))

\* whether directory (parts) d is p's parent or an ancestor of it: rglob's reach
IsUnder(p, d) ==
    /\ Len(d) <= Len(p.parent)
    /\ SubSeq(p.parent, 1, Len(d)) = d

(***************************************************************************)
(* Order of str and of Path.  Python compares str by code point and Path   *)
(* by its parts; StrOrder lists every path component of the model in       *)
(* ascending code point order (digits < upper case < '_' < lower case).    *)
(***************************************************************************)
RECURSIVE Flatten(_)
Flatten(ss) == IF ss = <<>> THEN <<>> ELSE Head(ss) \o Flatten(Tail(ss))

\* the instants, hashes and suffixes a destination name of the model is made of
StampOrder == <<"20230601_120000", "20231231_190000", "20240102_030405">>
HashOrder == <<"0c0ffee", "a1b2c3d", "e4f5a6b">>
SuffixOrder == <<".heic", ".jpg", ".mp4", ".png", ".txt">>

CanonNames(prefix) ==
    Flatten([i \in 1..Len(StampOrder) |->
      Flatten([j \in 1..Len(HashOrder) |->
        [k \in 1..Len(SuffixOrder) |->
           prefix \o StampOrder[i] \o "_" \o HashOrder[j] \o SuffixOrder[k]]])])

StrOrder ==
    <<"2023", "2024">> \o CanonNames("IMG_") \o CanonNames("Screenshot_")
      \o <<"Screenshots", "a.jpg", "b.JPG", "c.jpg", "dst", "in",
           "n.txt", "s.png", "v.mp4", "x.heic", "z.jpg">>

StrRank(s) == CHOOSE i \in 1..Len(StrOrder) : StrOrder[i] = s

\* list < list, as Python compares sequences
RECURSIVE PartsLess(_, _)
PartsLess(a, b) ==
    IF b = <<>> THEN FALSE
    ELSE IF a = <<>> THEN TRUE
    ELSE IF Head(a) = Head(b) THEN PartsLess(Tail(a), Tail(b))
    ELSE StrRank(Head(a)) < StrRank(Head(b))

PathLess(p, q) == PartsLess(Parts(p), Parts(q))

\* sorted(): insertion sort of [key |-> Path, val |-> x] pairs by key, stable
RECURSIVE Insert(_, _)
Insert(x, sorted) ==
    IF sorted = <<>> THEN <<x>>
    ELSE IF PathLess(x.key, Head(sorted).key) THEN <<x>> \o sorted
    ELSE <<Head(sorted)>> \o Insert(x, Tail(sorted))

RECURSIVE SortPairs(_)
SortPairs(xs) ==
    IF xs = <<>> THEN <<>>
    ELSE Insert(xs[Len(xs)], SortPairs(SubSeq(xs, 1, Len(xs) - 1)))

Vals(pairs) == [i \in 1..Len(pairs) |-> pairs[i].val]

RECURSIVE SetToSeq(_)
SetToSeq(S) ==
    IF S = {} THEN <<>>
    ELSE LET x == CHOOSE y \in S : TRUE IN <<x>> \o SetToSeq(S \ {x})

\* sorted(photos), sorted(self.skipped_items), sorted(self.rename_tasks): the
\* dataclasses order by their first field, and the paths of a batch differ
SortedPaths(S) ==
    LET xs == SetToSeq(S)
    IN  Vals(SortPairs([i \in 1..Len(xs) |-> [key |-> xs[i], val |-> xs[i]]]))
SortedInfos(xs) ==
    Vals(SortPairs([i \in 1..Len(xs) |-> [key |-> xs[i].path, val |-> xs[i]]]))
SortedTasks(xs) ==
    Vals(SortPairs([i \in 1..Len(xs) |-> [key |-> xs[i].photo_info.path, val |-> xs[i]]]))

(***************************************************************************)
(* datetime.  The configured zone is a whole number of hours from UTC:     *)
(* -7 in the months 4..10 and -8 otherwise (the instants of the model stay *)
(* clear of the two transition months).                                    *)
(***************************************************************************)
NoneDt == [none |-> TRUE]

DT(y, mo, d, h, mi, s, tz) ==
    [year |-> y, month |-> mo, day |-> d, hour |-> h, minute |-> mi,
     second |-> s, tzinfo |-> tz]

IsLeap(y) == (y % 4 = 0 /\ y % 100 /= 0) \/ y % 400 = 0
DaysInMonth(y, m) ==
    IF m = 2 THEN (IF IsLeap(y) THEN 29 ELSE 28)
    ELSE IF m \in {4, 6, 9, 11} THEN 30 ELSE 31

PrevDay(dt) ==
    IF dt.day > 1 THEN [dt EXCEPT !.day = @ - 1]
    ELSE IF dt.month > 1
         THEN [dt EXCEPT !.month = @ - 1, !.day = DaysInMonth(dt.year, dt.month - 1)]
         ELSE [dt EXCEPT !.year = @ - 1, !.month = 12, !.day = 31]

NextDay(dt) ==
    IF dt.day < DaysInMonth(dt.year, dt.month) THEN [dt EXCEPT !.day = @ + 1]
    ELSE IF dt.month < 12 THEN [dt EXCEPT !.month = @ + 1, !.day = 1]
         ELSE [dt EXCEPT !.year = @ + 1, !.month = 1, !.day = 1]

ShiftHours(dt, k) ==
    LET h == dt.hour + k
    IN  IF h < 0 THEN [PrevDay(dt) EXCEPT !.hour = h + 24]
        ELSE IF h > 23 THEN [NextDay(dt) EXCEPT !.hour = h - 24]
        ELSE [dt EXCEPT !.hour = h]

\* utcoffset of the configured zone at a UTC instant, in hours
UtcOffset(utc) == IF utc.month \in 4..10 THEN 0 - 7 ELSE 0 - 8

\* datetime.fromtimestamp(ts, tz=self.timezone); ts is given as its UTC reading
parse_timestamp(ts) == [ShiftHours(ts, UtcOffset(ts)) EXCEPT !.tzinfo = timezone]

\* dt.strftime('%Y%m%d_%H%M%S') and str(dt.year)
strftime(dt) ==
    Pad4(dt.year) \o Pad2(dt.month) \o Pad2(dt.day) \o "_"
      \o Pad2(dt.hour) \o Pad2(dt.minute) \o Pad2(dt.second)
YearStr(dt) == Pad4(dt.year)

(***************************************************************************)
(* Text read from metadata is a sequence of characters, so that slicing,   *)
(* matching and parsing work on it character by character.                 *)
(***************************************************************************)
Chars2(n) == <<Digit[((n \div 10) % 10) + 1], Digit[(n % 10) + 1]>>
Chars4(n) == Chars2(n \div 100) \o Chars2(n % 100)

IsDigit(c) == \E n \in 1..10 : Digit[n] = c
DigitVal(c) == (CHOOSE n \in 1..10 : Digit[n] = c) - 1
AllDigits(s, from, to) == \A i \in from..to : IsDigit(s[i])
Num2(s, i) == DigitVal(s[i]) * 10 + DigitVal(s[i + 1])
Num4(s, i) == Num2(s, i) * 100 + Num2(s, i + 2)

\* s[:n], s[n:], str.startswith, str.endswith
Take(s, n) == SubSeq(s, 1, IF n < Len(s) THEN n ELSE Len(s))
Drop(s, n) == SubSeq(s, n + 1, Len(s))
StartsWith(s, t) == Len(s) >= Len(t) /\ Take(s, Len(t)) = t
EndsWith(s, t) == Len(s) >= Len(t) /\ Drop(s, Len(s) - Len(t)) = t

\* str.replace(old, new, count) for single characters
RECURSIVE Replace(_, _, _, _)
Replace(s, old, new, count) ==
    IF s = <<>> \/ count = 0 THEN s
    ELSE IF Head(s) = old THEN <<new>> \o Replace(Tail(s), old, new, count - 1)
    ELSE <<Head(s)>> \o Replace(Tail(s), old, new, count)

\* str.strip(), str.removeprefix(), str.removesuffix()
RECURSIVE LStrip(_)
LStrip(s) == IF s /= <<>> /\ Head(s) = " " THEN LStrip(Tail(s)) ELSE s
RECURSIVE RStrip(_)
RStrip(s) ==
    IF s /= <<>> /\ s[Len(s)] = " " THEN RStrip(SubSeq(s, 1, Len(s) - 1)) ELSE s
Strip(s) == RStrip(LStrip(s))
RemovePrefix(s, t) == IF StartsWith(s, t) THEN Drop(s, Len(t)) ELSE s
RemoveSuffix(s, t) == IF EndsWith(s, t) THEN Take(s, Len(s) - Len(t)) ELSE s

UTC == <<"U", "T", "C">>

(***************************************************************************)
(* Python's None among texts, the truth value of a text, `a or b`, and     *)
(* dict.get.                                                               *)
(***************************************************************************)
None == <<"<None>">>
Truthy(v) == v /= None /\ v /= <<>>
Or(a, b) == IF Truthy(a) THEN a ELSE b
Get(d, k) == IF k \in DOMAIN d THEN d[k] ELSE None

\* re.match(r'[+-]\d\d\:\d\d', s): the pattern is looked for at the start of
\* s and nothing says where the match has to end
OffsetMatch(s) ==
    /\ Len(s) >= 6
    /\ s[1] \in {"+", "-"}
    /\ AllDigits(s, 2, 3)
    /\ s[4] = ":"
    /\ AllDigits(s, 5, 6)

\* the texts cameras and muxers write: 'YYYY:MM:DD HH:MM:SS' in EXIF,
\* 'YYYY-MM-DD<sep>HH:MM:SS' elsewhere, '+HH:MM' for an offset
ExifText(y, mo, d, h, mi, sec) ==
    Chars4(y) \o <<":">> \o Chars2(mo) \o <<":">> \o Chars2(d) \o <<" ">>
      \o Chars2(h) \o <<":">> \o Chars2(mi) \o <<":">> \o Chars2(sec)
IsoText(y, mo, d, sep, h, mi, sec) ==
    Chars4(y) \o <<"-">> \o Chars2(mo) \o <<"-">> \o Chars2(d) \o <<sep>>
      \o Chars2(h) \o <<":">> \o Chars2(mi) \o <<":">> \o Chars2(sec)
OffsetText(sign, h, mi) == <<sign>> \o Chars2(h) \o <<":">> \o Chars2(mi)

(***************************************************************************)
(* The files of the model.  Files[ino] is what a file holds: the first 7   *)
(* hex digits of its SHA-1, what its metadata reader finds in it, and its  *)
(* modification time (as a UTC reading).  meta.kind is                     *)
(*   "dt"      a datetime is found; meta.dt is what the extractor computes *)
(*             from it (naive or in another zone if the extractor is       *)
(*             faulty: get_info validates what any extractor returns)      *)
(*   "empty"   the image has no EXIF at all                                *)
(*   "nodate"  metadata is there, a datetime is not                        *)
(*   "raise"   the reader raises meta.exc (a corrupt file)                 *)
(*   "exif"    an image, meta.exif being its tags                          *)
(*   "track"   a video, meta.track being its general track                 *)
(***************************************************************************)
T1 == DT(2023, 6, 1, 12, 0, 0, timezone)
T2 == DT(2024, 1, 2, 3, 4, 5, timezone)
TNaive == DT(2023, 6, 1, 12, 0, 0, "None")
TUtc == DT(2023, 6, 1, 12, 0, 0, "UTC")
MTime == DT(2024, 1, 1, 3, 0, 0, "UTC")

Files ==
    <<  \* 1, 2: one photo and a byte-for-byte copy of it
        [sha1 |-> "a1b2c3d", meta |-> [kind |-> "dt", dt |-> T1], st_mtime |-> MTime],
        [sha1 |-> "a1b2c3d", meta |-> [kind |-> "dt", dt |-> T1], st_mtime |-> MTime],
        \* 3: another photo, taken at T2
        [sha1 |-> "0c0ffee", meta |-> [kind |-> "dt", dt |-> T2], st_mtime |-> MTime],
        \* 4: no EXIF (a screenshot, whatever its suffix)
        [sha1 |-> "e4f5a6b", meta |-> [kind |-> "empty"], st_mtime |-> MTime],
        \* 5: metadata without a datetime
        [sha1 |-> "e4f5a6b", meta |-> [kind |-> "nodate"], st_mtime |-> MTime],
        \* 6: a corrupt file
        [sha1 |-> "0c0ffee",
         meta |-> [kind |-> "raise",
                   exc |-> [type |-> "OSError", msg |-> "cannot identify file"]],
         st_mtime |-> MTime],
        \* 7, 8: the extractor hands back a naive datetime, or one in another zone
        [sha1 |-> "e4f5a6b", meta |-> [kind |-> "dt", dt |-> TNaive], st_mtime |-> MTime],
        [sha1 |-> "e4f5a6b", meta |-> [kind |-> "dt", dt |-> TUtc], st_mtime |-> MTime],
        \* 9: a photo with its tags: taken at 12:00:00 where UTC+02:00 was in use
        [sha1 |-> "a1b2c3d",
         meta |-> [kind |-> "exif",
                   exif |-> [t \in {"DateTimeOriginal", "OffsetTimeOriginal"} |->
                               IF t = "DateTimeOriginal"
                               THEN ExifText(2023, 6, 1, 12, 0, 0)
                               ELSE OffsetText("+", 2, 0)]],
         st_mtime |-> MTime],
        \* 10: a video with its general track: encoded at 12:00:00 UTC
        [sha1 |-> "0c0ffee",
         meta |-> [kind |-> "track",
                   track |-> [comapplequicktimecreationdate |-> None,
                              encoded_date |-> UTC \o <<" ">>
                                                \o IsoText(2023, 6, 1, " ", 12, 0, 0),
                              tagged_date |-> None]],
         st_mtime |-> MTime],
        \* 11: a file that is not a photo
        [sha1 |-> "e4f5a6b", meta |-> [kind |-> "empty"], st_mtime |-> MTime]
    >>

Inodes == DOMAIN Files

Root(name) == [parent |-> <<>>, stem |-> name, suffix |-> ""]
P(parent, stem, suffix) == [parent |-> parent, stem |-> stem, suffix |-> suffix]

InDir == Root("in")
DstDir == Root("dst")
HomeDir == Root("home")

\* where a file of the model may lie when the first run starts
Catalogue ==
    <<  [path |-> P(<<"in">>, "a", ".jpg"), ino |-> 1],
        [path |-> P(<<"in">>, "b", ".JPG"), ino |-> 2],
        [path |-> P(<<"in", "Screenshots">>, "c", ".jpg"), ino |-> 4],
        [path |-> P(<<"in">>, "s", ".png"), ino |-> 5],
        [path |-> P(<<"in">>, "v", ".mp4"), ino |-> 6],
        [path |-> P(<<"in">>, "n", ".txt"), ino |-> 3],
        [path |-> P(<<"in">>, "x", ".heic"), ino |-> 7],
        [path |-> P(<<"in">>, "x", ".heic"), ino |-> 8],
        [path |-> P(<<"in">>, "z", ".jpg"), ino |-> 3],
        \* already organized: the name its content asks for
        [path |-> P(<<"dst", "2023">>, "IMG_20230601_120000_a1b2c3d", ".jpg"), ino |-> 2],
        \* under that name, but with the content of file 3
        [path |-> P(<<"dst", "2023">>, "IMG_20230601_120000_a1b2c3d", ".jpg"), ino |-> 3],
        \* below the destination root, not yet organized
        [path |-> P(<<"dst">>, "a", ".jpg"), ino |-> 1]
    >>

(***************************************************************************)
(* State.                                                                  *)
(***************************************************************************)
VARIABLES
    fs,             \* the files of the filesystem: path -> inode
    dirs,           \* its directories, as sets of parts
    src_dir,        \* PhotoOrganizer.src_dir (a directory or a single file)
    dst_dir,        \* PhotoOrganizer.dst_dir
    cwd,            \* the directory the command is run in (the default dst_dir)
    tree0,          \* history: fs and dirs when this run started
    allow_mtime,    \* PhotoOrganizer.allow_mtime (--allow-mtime)
    run,            \* which run of the organizer this is
    pc,             \* where the main thread is
    items,          \* sorted(photos), the items given to tpe_submit
    submitted,      \* how many of them tpe.submit has been called for
    future,         \* the state of each item's future
    result,         \* and its outcome once finished
    pending,        \* tpe_submit's pending
    done_now,       \* the part of done_now the for loop has not yet visited
    completed,      \* tpe_submit's completed
    failed,         \* tpe_submit's failed
    interrupted,    \* a KeyboardInterrupt was delivered in this run
    rename_tasks,   \* PhotoOrganizer.rename_tasks
    skipped_items,  \* PhotoOrganizer.skipped_items
    moved,          \* how many entries of rename_tasks _do_rename has moved
    rename_error,   \* the exception that left _do_rename, if one did
    prev,           \* history: the batch and the plan of the run before this one
    probe           \* the input and result of a single call (SpecInfo)

vars == <<fs, dirs, src_dir, dst_dir, cwd, tree0, allow_mtime, run, pc, items, submitted,
          future, result, pending, done_now, completed, failed, interrupted,
          rename_tasks, skipped_items, moved, rename_error, prev, probe>>

(***************************************************************************)
(* Results of calls: a value, or an exception raised.                      *)
(***************************************************************************)
Return(v) == [raised |-> FALSE, value |-> v]
Raise(type, msg) == [raised |-> TRUE, exc |-> [type |-> type, msg |-> msg]]
Repr(exc) == exc.type \o "('" \o exc.msg \o "')"

\* PhotoInfo(path, datetime, datetime_source) and PhotoInfo.no_datetime
PhotoInfo(path, datetime, source) ==
    [path |-> path, datetime |-> datetime, datetime_source |-> source, errors |-> <<>>]
\* (mutant of no_datetime: the reason is not recorded)
no_datetime_without_error(path, error) ==
    [path |-> path, datetime |-> NoneDt, datetime_source |-> "None", errors |-> <<>>]

no_datetime(path, error) ==
    [path |-> path, datetime |-> NoneDt, datetime_source |-> "None", errors |-> <<error>>]
RenameTask(info, destination) == [photo_info |-> info, destination |-> destination]

\* Path.exists(), Path.is_file(), Path.samefile()
Exists(p) == p \in DOMAIN fs \/ Parts(p) \in dirs
IsFile(p) == p \in DOMAIN fs
SameFile(p, q) == IsFile(p) /\ IsFile(q) /\ fs[p] = fs[q]

NotFound(photo) == Raise("FileNotFoundError", "No such file: " \o PathStr(photo))

(***************************************************************************)
(* dateutil's isoparse on the forms the metadata of the model comes in:    *)
(* YYYY-MM-DD, alone or followed by any one character, HH:MM:SS and an     *)
(* optional Z, +HH:MM, +HHMM or +HH.  The value is the wall-clock reading  *)
(* with, when the text carries one, its offset from UTC in minutes.        *)
(***************************************************************************)
ValueError(msg) == Raise("ValueError", msg)

NoTz == [ok |-> FALSE, minutes |-> 0]
Signed(sign, h, m) ==
    IF h > 23 \/ m > 59 THEN NoTz
    ELSE [ok |-> TRUE, minutes |-> IF sign = "-" THEN 0 - (h * 60 + m) ELSE h * 60 + m]

\* isoparser._parse_tzstr
parse_tzstr(t) ==
    IF t = <<"Z">> THEN [ok |-> TRUE, minutes |-> 0]
    ELSE IF Len(t) \notin {3, 5, 6} THEN NoTz
    ELSE IF t[1] \notin {"+", "-"} THEN NoTz
    ELSE IF Len(t) = 3 /\ AllDigits(t, 2, 3) THEN Signed(t[1], Num2(t, 2), 0)
    ELSE IF Len(t) = 5 /\ AllDigits(t, 2, 5) THEN Signed(t[1], Num2(t, 2), Num2(t, 4))
    ELSE IF Len(t) = 6 /\ OffsetMatch(t) THEN Signed(t[1], Num2(t, 2), Num2(t, 5))
    ELSE NoTz

DateOk(s) ==
    /\ Len(s) >= 10
    /\ AllDigits(s, 1, 4) /\ s[5] = "-" /\ AllDigits(s, 6, 7) /\ s[8] = "-"
    /\ AllDigits(s, 9, 10)
    /\ Num4(s, 1) >= 1
    /\ Num2(s, 6) \in 1..12
    /\ Num2(s, 9) \in 1..DaysInMonth(Num4(s, 1), Num2(s, 6))

TimeOk(s) ==
    /\ Len(s) >= 19
    /\ AllDigits(s, 12, 13) /\ s[14] = ":" /\ AllDigits(s, 15, 16) /\ s[17] = ":"
    /\ AllDigits(s, 18, 19)
    /\ Num2(s, 12) <= 23 /\ Num2(s, 15) <= 59 /\ Num2(s, 18) <= 59

isoparse(s) ==
    IF ~DateOk(s) THEN ValueError("invalid isoformat string")
    ELSE IF Len(s) = 10
         THEN Return([dt |-> DT(Num4(s, 1), Num2(s, 6), Num2(s, 9), 0, 0, 0, "None"),
                      aware |-> FALSE, offset |-> 0])
    ELSE IF ~TimeOk(s) THEN ValueError("invalid isoformat string")
    ELSE LET dt == DT(Num4(s, 1), Num2(s, 6), Num2(s, 9),
                      Num2(s, 12), Num2(s, 15), Num2(s, 18), "None")
             tz == parse_tzstr(Drop(s, 19))
         IN  IF Len(s) = 19 THEN Return([dt |-> dt, aware |-> FALSE, offset |-> 0])
             ELSE IF tz.ok THEN Return([dt |-> dt, aware |-> TRUE, offset |-> tz.minutes])
             ELSE ValueError("invalid isoformat string")

\* a wall-clock reading moved by m minutes, -1440 < m < 1440
AddMinutes(dt, m) ==
    LET t == dt.hour * 60 + dt.minute + m
        day == IF t < 0 THEN PrevDay(dt) ELSE IF t >= 1440 THEN NextDay(dt) ELSE dt
        u == IF t < 0 THEN t + 1440 ELSE IF t >= 1440 THEN t - 1440 ELSE t
    IN  [day EXCEPT !.hour = u \div 60, !.minute = u % 60]

\* the UTC reading of what isoparse returned, the text taken as UTC when it
\* carries no offset (pytz.utc.localize)
ToUtc(parsed) ==
    IF parsed.aware THEN AddMinutes(parsed.dt, 0 - parsed.offset) ELSE parsed.dt

\* dt.astimezone(self.timezone) of an instant given as its UTC reading
astimezone(utc) == [ShiftHours(utc, UtcOffset(utc)) EXCEPT !.tzinfo = timezone]

\* self.timezone.localize(dt): the reading is kept, the zone attached
localize(parsed) ==
    IF parsed.aware THEN ValueError("Not naive datetime (tzinfo is already set)")
    ELSE Return([parsed.dt EXCEPT !.tzinfo = timezone])

\* (mutant of exif_dt: the tags are tried in the opposite order)
exif_dt_reversed(exif) ==
    Or(Or(Get(exif, "DateTime"), Get(exif, "DateTimeDigitized")),
       Get(exif, "DateTimeOriginal"))

\* exif.get('DateTimeOriginal') or exif.get('DateTimeDigitized') or exif.get('DateTime')
exif_dt(exif) ==
    Or(Or(Get(exif, "DateTimeOriginal"), Get(exif, "DateTimeDigitized")),
       Get(exif, "DateTime"))

\* the offset tag picked the same way, emptied when re.match finds no offset
\* at its start
exif_time_offset(exif) ==
    LET raw == Or(Or(Get(exif, "OffsetTimeOriginal"), Get(exif, "OffsetTimeDigitized")),
                  Get(exif, "OffsetTime"))
    IN  IF raw /= None /\ ~OffsetMatch(raw) THEN <<>> ELSE raw

\* get_info_from_pillow once the tags are read: exif is the dictionary of
\* the tags Pillow knows by name, without the values that are bytes
exif_info(photo, exif) ==
    IF DOMAIN exif = {}
    THEN Return(no_datetime(photo, "File is EXIF-compatible but no EXIF found"))
    ELSE LET _exif_dt == exif_dt(exif)
             _exif_time_offset == exif_time_offset(exif)
             dt_str == Replace(Take(_exif_dt, 19), ":", "-", 2)
         IN  IF _exif_dt = None
             THEN Return(no_datetime(photo, "EXIF exists but no datetime found"))
             ELSE IF Truthy(_exif_time_offset)
             THEN LET r == isoparse(dt_str \o _exif_time_offset)
                  IN  IF r.raised THEN r
                      ELSE Return(PhotoInfo(photo, astimezone(ToUtc(r.value)), "EXIF"))
             ELSE LET r == isoparse(dt_str)
                      dt == IF r.raised THEN r ELSE localize(r.value)
                  IN  IF dt.raised THEN dt
                      ELSE Return(PhotoInfo(photo, dt.value, "EXIF"))

\* get_info_from_mediainfo once the file is parsed: track is the general
\* track, its three dates a text or None
track_info(photo, track) ==
    LET apple == track.comapplequicktimecreationdate
        dated == Or(track.encoded_date, track.tagged_date)
        marked == StartsWith(dated, UTC) \/ EndsWith(dated, UTC)
        r == IF Truthy(apple) THEN isoparse(apple)
             ELSE isoparse(Strip(RemoveSuffix(RemovePrefix(dated, UTC), UTC)))
    IN  IF ~Truthy(apple) /\ ~Truthy(dated)
        THEN Return(no_datetime(photo, "Cannot extract datetime from MediaInfo"))
        ELSE IF ~Truthy(apple) /\ ~marked
        THEN Raise("AssertionError", "encoded_date/tagged_date should have UTC marking")
        ELSE IF r.raised THEN r
        ELSE Return(PhotoInfo(photo, astimezone(ToUtc(r.value)), "MediaInfo"))

(***************************************************************************)
(* The extractors (organizer.py), as far as the planner sees them: each    *)
(* opens the file and returns a PhotoInfo or raises.                       *)
(***************************************************************************)
get_info_from_pillow(photo) ==
    IF ~IsFile(photo) THEN NotFound(photo)
    ELSE LET meta == Files[fs[photo]].meta
         IN  CASE meta.kind = "raise" -> [raised |-> TRUE, exc |-> meta.exc]
               [] meta.kind = "empty" ->
                    Return(no_datetime(photo, "File is EXIF-compatible but no EXIF found"))
               [] meta.kind = "nodate" ->
                    Return(no_datetime(photo, "EXIF exists but no datetime found"))
               [] meta.kind = "exif" -> exif_info(photo, meta.exif)
               [] meta.kind = "track" ->
                    Raise("UnidentifiedImageError", "cannot identify image file")
               [] OTHER -> Return(PhotoInfo(photo, meta.dt, "EXIF"))

get_info_from_mediainfo(photo) ==
    IF ~IsFile(photo) THEN NotFound(photo)
    ELSE LET meta == Files[fs[photo]].meta
         IN  CASE meta.kind = "raise" -> [raised |-> TRUE, exc |-> meta.exc]
               [] meta.kind \in {"empty", "nodate", "exif"} ->
                    Return(no_datetime(photo, "Cannot extract datetime from MediaInfo"))
               [] meta.kind = "track" -> track_info(photo, meta.track)
               [] OTHER -> Return(PhotoInfo(photo, meta.dt, "MediaInfo"))

get_info_from_file(photo) ==
    IF ~IsFile(photo) THEN NotFound(photo)
    ELSE Return(PhotoInfo(photo, parse_timestamp(Files[fs[photo]].st_mtime), "mtime"))

\* (mutant of Dispatch: the screenshot branch is missing)
DispatchWithoutSkip(ext) ==
    IF ext \in pillow_exts THEN "pillow"
    ELSE IF ext \in mediainfo_exts THEN "mediainfo"
    ELSE "unexpected"

\* the extractor get_info picks for a suffix
Dispatch(ext) ==
    IF ext \in pillow_exts THEN "pillow"
    ELSE IF ext \in mediainfo_exts THEN "mediainfo"
    ELSE IF ext \in screenshot_exts THEN "skip"
    ELSE "unexpected"

\* the asserts that close get_info
Validate(r) ==
    IF r.raised THEN r
    ELSE IF r.value.datetime = NoneDt THEN r
    ELSE IF r.value.datetime.tzinfo = "None"
         THEN Raise("AssertionError", "timezone does not exist")
    ELSE IF r.value.datetime.tzinfo /= timezone
         THEN Raise("AssertionError", "timezone does not match")
    ELSE r

get_info(photo) ==
    LET how == Dispatch(Lower(photo.suffix))
    IN  CASE how = "pillow" -> Validate(get_info_from_pillow(photo))
          [] how = "mediainfo" -> Validate(get_info_from_mediainfo(photo))
          [] how = "skip" ->
               Validate(Return(no_datetime(photo,
                                  "Datetime extraction is skipped for this type of file")))
          [] OTHER -> Raise("RuntimeError", "Unexpected extension: " \o PathStr(photo))

\* the prefix _get_rename_task passes to get_deterministic_filename: none, so
\* the default of the parameter
Prefix(photo) == DEFAULT_PREFIX

\* get_deterministic_filename; the name is returned as its stem and suffix
get_deterministic_filename(photo, dt, prefix) ==
    IF ~IsFile(photo) THEN NotFound(photo)
    ELSE LET timestamp == strftime(dt)
             h == Files[fs[photo]].sha1
         IN  Return([stem |-> prefix \o timestamp \o "_" \o h,
                     suffix |-> Lower(photo.suffix)])

\* (mutant of FallbackAllowed: the flag is not consulted)
FallbackAlways == TRUE

\* whether a file without an extracted datetime may take its mtime
FallbackAllowed == allow_mtime

get_rename_task(photo) ==
    LET r == get_info(photo)
    IN  IF r.raised THEN r
        ELSE IF r.value.datetime = NoneDt /\ ~FallbackAllowed
             THEN Raise("Exception",
                        "Cannot determine datetime from EXIF/MediaInfo. Fallback to mtime is not allowed.")
        ELSE LET r2 == IF r.value.datetime = NoneDt
                       THEN get_info_from_file(r.value.path) ELSE r
             IN  IF r2.raised THEN r2
                 ELSE LET info == r2.value
                          fn == get_deterministic_filename(photo, info.datetime, Prefix(photo))
                      IN  IF fn.raised THEN fn
                          ELSE Return(RenameTask(info,
                                 [parent |-> Parts(dst_dir) \o <<YearStr(info.datetime)>>,
                                  stem |-> fn.value.stem, suffix |-> fn.value.suffix]))

\* iter_photo: the single file, or the files below src_dir that rglob('*.*')
\* matches and whose suffix is allowed
FileAllowed(p) == Lower(p.suffix) \in allowed_exts
iter_photo ==
    IF IsFile(src_dir) THEN {src_dir}
    ELSE {p \in DOMAIN fs : IsUnder(p, Parts(src_dir)) /\ p.suffix /= "" /\ FileAllowed(p)}

(***************************************************************************)
(* The initial states: up to MaxFiles files of the catalogue (no two at    *)
(* one path, no hard links), with or without a regular file named         *)
(* dst/2024, a source root that exists, either setting of                  *)
(* --allow-mtime; the organizer is constructed and start() is called.      *)
(***************************************************************************)
RECURSIVE Prefixes(_)
Prefixes(parts) ==
    IF parts = <<>> THEN {} ELSE {parts} \cup Prefixes(SubSeq(parts, 1, Len(parts) - 1))

Placements ==
    {S \in SUBSET (1..Len(Catalogue)) :
        /\ Cardinality(S) \in 1..MaxFiles
        /\ \A i, j \in S : i /= j =>
              /\ Catalogue[i].path /= Catalogue[j].path
              /\ Catalogue[i].ino /= Catalogue[j].ino}

FsOf(S) ==
    [p \in {Catalogue[i].path : i \in S} |->
        Catalogue[CHOOSE i \in S : Catalogue[i].path = p].ino]

DirsOf(S) ==
    {<<"in">>, <<"dst">>, <<"home">>} \cup UNION {Prefixes(Catalogue[i].path.parent) : i \in S}

\* a regular file where the planner will want the directory of a year
Blocker == P(<<"dst">>, "2024", "")
BlockerIno == 11

NoResult == [raised |-> FALSE, value |-> NoneDt]
NoRun == [items |-> <<>>, rename_tasks |-> <<>>, skipped_items |-> <<>>]

\* PhotoOrganizer.__init__ and the locals of a tpe_submit not yet called
Fresh ==
    /\ pc = "start"
    /\ items = <<>>
    /\ submitted = 0
    /\ future = <<>>
    /\ result = <<>>
    /\ pending = {}
    /\ done_now = {}
    /\ completed = <<>>
    /\ failed = <<>>
    /\ interrupted = FALSE
    /\ rename_tasks = <<>>
    /\ skipped_items = <<>>
    /\ moved = 0
    /\ rename_error = NoResult

Init ==
    /\ \E S \in Placements, blocked \in BOOLEAN :
          /\ fs = IF blocked THEN FsOf(S) @@ (Blocker :> BlockerIno) ELSE FsOf(S)
          /\ dirs = DirsOf(S)
    /\ src_dir \in {InDir, DstDir} \cup (DOMAIN fs \ {Blocker})
    /\ dst_dir = DstDir
    /\ cwd \in {DstDir, HomeDir}
    /\ tree0 = [fs |-> fs, dirs |-> dirs]
    /\ allow_mtime \in BOOLEAN
    /\ run = 1
    /\ Fresh
    /\ prev = NoRun
    /\ probe = NoResult

(***************************************************************************)
(* start() up to the call of tpe_submit, and tpe_submit (tpe.py).          *)
(***************************************************************************)
config == <<src_dir, dst_dir, cwd, tree0, allow_mtime, run, prev>>
tree == <<fs, dirs>>
plan == <<rename_tasks, skipped_items, moved, rename_error>>

\* _prepare_rename_tasks evaluates sorted(photos) and calls tpe_submit
Start ==
    /\ pc = "start"
    /\ items' = SortedPaths(iter_photo)
    /\ future' = [i \in 1..Len(items') |-> "new"]
    /\ result' = [i \in 1..Len(items') |-> NoResult]
    /\ pc' = "submit"
    /\ UNCHANGED <<config, tree, plan, submitted, pending, done_now, completed,
                   failed, interrupted, probe>>

\* one tpe.submit(func, item) of the dict comprehension
Submit ==
    /\ pc = "submit"
    /\ submitted < Len(items)
    /\ submitted' = submitted + 1
    /\ future' = [future EXCEPT ![submitted + 1] = "queued"]
    /\ UNCHANGED <<config, tree, plan, pc, items, result, pending, done_now,
                   completed, failed, interrupted, probe>>

\* pending = set(futures_map.keys()); the progress bar; the try block is entered
EnterLoop ==
    /\ pc = "submit"
    /\ submitted = Len(items)
    /\ pending' = 1..Len(items)
    /\ pc' = "wait"
    /\ UNCHANGED <<config, tree, plan, items, submitted, future, result, done_now,
                   completed, failed, interrupted, probe>>

\* (mutant of DoneOf: every done future is handed back, collected or not)
DoneOfAll(fut, pend) == {i \in DOMAIN fut : fut[i] \in {"finished", "cancelled"}}

\* what concurrent.futures.wait hands back: the pending futures that are done
DoneOf(fut, pend) == {i \in pend : fut[i] \in {"finished", "cancelled"}}

\* the head of the while loop: leave it when nothing is pending, else wait for
\* up to 0.1 s and split pending into done_now and the rest
Wait ==
    /\ pc = "wait"
    /\ IF pending = {}
       THEN /\ pc' = "reconcile"
            /\ UNCHANGED <<pending, done_now>>
       ELSE /\ done_now' = DoneOf(future, pending)
            /\ pending' = pending \ done_now'
            /\ pc' = IF done_now' = {} THEN "wait" ELSE "collect"
    /\ UNCHANGED <<config, tree, plan, items, submitted, future, result,
                   completed, failed, interrupted, probe>>

\* (mutant of CollectInto: a failure is not recorded)
CollectIntoDroppingFailures(done, i) ==
    IF result[i].raised
    THEN done
    ELSE [completed |-> Append(done.completed, <<items[i], result[i].value>>),
          failed |-> done.failed]

\* the entry the for loop appends for a future: to failed if future.result()
\* raises an Exception, to completed otherwise
CollectInto(done, i) ==
    IF result[i].raised
    THEN [completed |-> done.completed,
          failed |-> Append(done.failed, <<items[i], result[i].exc>>)]
    ELSE [completed |-> Append(done.completed, <<items[i], result[i].value>>),
          failed |-> done.failed]

\* one round of `for future in done_now`, in the set's iteration order
Collect(i) ==
    /\ pc = "collect"
    /\ i \in done_now
    /\ LET got == CollectInto([completed |-> completed, failed |-> failed], i)
       IN  /\ completed' = got.completed
           /\ failed' = got.failed
    /\ done_now' = done_now \ {i}
    /\ pc' = IF done_now' = {} THEN "wait" ELSE "collect"
    /\ UNCHANGED <<config, tree, plan, items, submitted, future, result, pending,
                   interrupted, probe>>

\* where a KeyboardInterrupt raised in tpe_submit is caught: the try block
\* covers the while loop only
InTry(at) == at \in {"wait", "collect"}

\* (mutant of Shutdown: the queued futures are left alone)
ShutdownWithoutCancel(fut) == fut

\* tpe.shutdown(wait=False, cancel_futures=True)
Shutdown(fut) == [i \in DOMAIN fut |-> IF fut[i] = "queued" THEN "cancelled" ELSE fut[i]]

\* Ctrl-C while tpe_submit runs.  Inside the try: the executor is shut down
\* and `finally` returns what was collected.  Before it (the submissions, the
\* progress bar): the exception leaves tpe_submit, start() and the program.
KeyboardInterrupt ==
    /\ pc \in {"submit", "wait", "collect"}
    /\ ~interrupted
    /\ interrupted' = TRUE
    /\ IF InTry(pc)
       THEN /\ future' = Shutdown(future)
            /\ pc' = "reconcile"
       ELSE /\ pc' = "raised"
            /\ UNCHANGED future
    /\ done_now' = {}
    /\ UNCHANGED <<config, tree, plan, items, submitted, result, pending,
                   completed, failed, probe>>

\* a worker thread takes a queued work item and calls func(item)
StartTask(i) ==
    /\ i \in DOMAIN future
    /\ future[i] = "queued"
    /\ future' = [future EXCEPT ![i] = "running"]
    /\ UNCHANGED <<config, tree, plan, pc, items, submitted, result, pending,
                   done_now, completed, failed, interrupted, probe>>

\* func(item) returns or raises; the future holds the outcome
FinishTask(i) ==
    /\ i \in DOMAIN future
    /\ future[i] = "running"
    /\ future' = [future EXCEPT ![i] = "finished"]
    /\ result' = [result EXCEPT ![i] = get_rename_task(items[i])]
    /\ UNCHANGED <<config, tree, plan, pc, items, submitted, pending, done_now,
                   completed, failed, interrupted, probe>>

(***************************************************************************)
(* _prepare_rename_tasks after tpe_submit has returned, and the rest of    *)
(* start(): the two loops, the two sorted() calls, the prompt.             *)
(***************************************************************************)
\* (mutant of ReconcileFailed: the failures are not listed)
ReconcileFailedDropped(bad, acc) == acc

\* (mutant of Disposition: an existing destination is never the file itself)
DispositionWithoutSameFile(task) ==
    IF Exists(task.destination) THEN "skip" ELSE "rename"

\* what the first loop does with a completed task
Disposition(task) ==
    IF Exists(task.destination)
    THEN IF SameFile(task.destination, task.photo_info.path) THEN "drop" ELSE "skip"
    ELSE "rename"

AlreadyExists(task) ==
    [task.photo_info EXCEPT
        !.errors = Append(@, "Destination already exists: " \o PathStr(task.destination))]

RECURSIVE ReconcileCompleted(_, _)
ReconcileCompleted(done, acc) ==
    IF done = <<>> THEN acc
    ELSE LET task == Head(done)[2]
             how == Disposition(task)
         IN  ReconcileCompleted(Tail(done),
               CASE how = "rename" ->
                      [acc EXCEPT !.rename_tasks = Append(@, task)]
                 [] how = "skip" ->
                      [acc EXCEPT !.skipped_items = Append(@, AlreadyExists(task))]
                 [] OTHER -> acc)

RECURSIVE ReconcileFailed(_, _)
ReconcileFailed(bad, acc) ==
    IF bad = <<>> THEN acc
    ELSE ReconcileFailed(Tail(bad),
           [acc EXCEPT !.skipped_items =
               Append(@, no_datetime(Head(bad)[1], Repr(Head(bad)[2])))])

\* the lists as _prepare_rename_tasks leaves them
Prepared ==
    ReconcileFailed(failed,
      ReconcileCompleted(completed,
        [rename_tasks |-> rename_tasks, skipped_items |-> skipped_items]))

\* (mutant of FinalTasks: the list is left in the order of completion)
FinalTasksUnsorted(xs) == xs

\* self.rename_tasks = sorted(self.rename_tasks), and the same for skipped_items
FinalTasks(xs) == SortedTasks(xs)
FinalSkipped(xs) == SortedInfos(xs)

\* open(path, 'a') or open(path, 'w'): the file is there afterwards
Touch(files, path, ino) == IF path \in DOMAIN files THEN files ELSE files @@ (path :> ino)

\* (mutant of LogFile: the log is kept with the photos, in the destination root)
LogFileInDestination == P(Parts(dst_dir), "phtorg." \o Digit[run + 1], ".log")

\* the log file of this run: setup_logging names it phtorg.<now>.log in the
\* working directory, and the handler opens it at the first record (delay=True)
LogFile == P(Parts(cwd), "phtorg." \o Digit[run + 1], ".log")
LogIno == 100 + run
Logged(files) == Touch(files, LogFile, LogIno)

\* the rest of _prepare_rename_tasks and of start() up to the prompt: the two
\* loops, the two sorted() calls, the two log.info calls
Reconcile ==
    /\ pc = "reconcile"
    /\ rename_tasks' = FinalTasks(Prepared.rename_tasks)
    /\ skipped_items' = FinalSkipped(Prepared.skipped_items)
    /\ fs' = Logged(fs)
    /\ pc' = "confirm"
    /\ UNCHANGED <<config, dirs, moved, rename_error, items, submitted, future,
                   result, pending, done_now, completed, failed, interrupted, probe>>

\* _save_tasks: the two tables, written in the working directory, and a
\* log record
RenameTasksCsv == P(Parts(cwd), "rename_tasks", ".csv")
SkippedItemsCsv == P(Parts(cwd), "skipped_items", ".csv")
\* (mutant of save_tasks: the table of skipped items is not written)
save_rename_tasks_only(files) == Logged(Touch(files, RenameTasksCsv, 201))

save_tasks(files) ==
    Logged(Touch(Touch(files, RenameTasksCsv, 201), SkippedItemsCsv, 202))

\* _confirm_rename: 'r' goes on to _do_rename; 'p' (the pager), 's' (the two
\* tables are saved) and anything else ask again; 'a' and Ctrl-C return
Confirm(resp) ==
    /\ pc = "confirm"
    /\ pc' = CASE resp = "r" -> "rename"
               [] resp \in {"a", "KeyboardInterrupt"} -> "exit"
               [] OTHER -> "confirm"
    /\ fs' = IF resp = "s" THEN save_tasks(fs) ELSE fs
    /\ UNCHANGED <<config, dirs, plan, items, submitted, future, result, pending,
                   done_now, completed, failed, interrupted, probe>>

(***************************************************************************)
(* _do_rename: mkdir(parents=True, exist_ok=True), then Path.rename, which *)
(* on POSIX silently replaces a file at the destination.  Nothing catches  *)
(* what either raises: the exception leaves _do_rename, start() and the    *)
(* program.                                                                *)
(***************************************************************************)
\* (mutant of Rename: the file is copied, its source stays)
RenameKeepingSource(files, src, dst) ==
    [p \in DOMAIN files \cup {dst} |-> IF p = dst THEN files[src] ELSE files[p]]

Rename(files, src, dst) ==
    [p \in (DOMAIN files \ {src}) \cup {dst} |-> IF p = dst THEN files[src] ELSE files[p]]

\* the files that lie where a directory of parts is asked for
FilesAt(parts) == {p \in DOMAIN fs : \E d \in Prefixes(parts) : Parts(p) = d}

\* task.destination.parent.mkdir(parents=True, exist_ok=True)
Mkdir(parts) ==
    IF FilesAt(parts) /= {}
    THEN Raise("FileExistsError", "File exists: " \o JoinParts(parts))
    ELSE Return(dirs \cup Prefixes(parts))

\* one round of the for loop, or its end
DoRename ==
    /\ pc = "rename"
    /\ \/ /\ moved < Len(rename_tasks)
          /\ LET task == rename_tasks[moved + 1]
                 made == Mkdir(task.destination.parent)
             IN  IF made.raised
                 THEN /\ rename_error' = made
                      /\ pc' = "rename_failed"
                      /\ UNCHANGED <<tree, moved>>
                 ELSE IF ~IsFile(task.photo_info.path)
                 THEN /\ dirs' = made.value
                      /\ rename_error' = NotFound(task.photo_info.path)
                      /\ pc' = "rename_failed"
                      /\ UNCHANGED <<fs, moved>>
                 ELSE /\ dirs' = made.value
                      /\ fs' = Rename(fs, task.photo_info.path, task.destination)
                      /\ moved' = moved + 1
                      /\ pc' = "rename"
                      /\ UNCHANGED rename_error
       \/ /\ moved = Len(rename_tasks)
          /\ pc' = "renamed"
          /\ UNCHANGED <<tree, moved, rename_error>>
    /\ UNCHANGED <<config, rename_tasks, skipped_items, items, submitted, future,
                   result, pending, done_now, completed, failed, interrupted, probe>>

\* the organizer is run again on what it has organized: the same options,
\* with the destination root as the source
SecondRun ==
    /\ pc = "renamed"
    /\ run < MaxRuns
    /\ ~interrupted
    /\ run' = run + 1
    /\ src_dir' = dst_dir
    /\ pc' = "start"
    /\ items' = <<>>
    /\ submitted' = 0
    /\ future' = <<>>
    /\ result' = <<>>
    /\ pending' = {}
    /\ done_now' = {}
    /\ completed' = <<>>
    /\ failed' = <<>>
    /\ interrupted' = FALSE
    /\ rename_tasks' = <<>>
    /\ skipped_items' = <<>>
    /\ moved' = 0
    /\ rename_error' = NoResult
    /\ prev' = [items |-> items, rename_tasks |-> rename_tasks,
                skipped_items |-> skipped_items]
    /\ tree0' = [fs |-> fs, dirs |-> dirs]
    /\ UNCHANGED <<tree, dst_dir, cwd, allow_mtime, probe>>

Next ==
    \/ Start
    \/ Submit
    \/ EnterLoop
    \/ Wait
    \/ \E i \in done_now : Collect(i)
    \/ KeyboardInterrupt
    \/ \E i \in DOMAIN future : StartTask(i)
    \/ \E i \in DOMAIN future : FinishTask(i)
    \/ Reconcile
    \/ \E resp \in {"r", "p", "s", "a", "", "KeyboardInterrupt"} : Confirm(resp)
    \/ DoRename
    \/ SecondRun

Spec == Init /\ [][Next]_vars

(***************************************************************************)
(* The scheduling the code relies on once tpe_submit is called: the main    *)
(* thread keeps running, the pool's threads take every queued item and     *)
(* every call of func returns.  As long as one of them can take a step,    *)
(* one of them does.  Nothing obliges the user to press Ctrl-C.            *)
(***************************************************************************)
TpeStep ==
    \/ Submit
    \/ EnterLoop
    \/ Wait
    \/ \E i \in done_now : Collect(i)
    \/ \E i \in DOMAIN future : StartTask(i)
    \/ \E i \in DOMAIN future : FinishTask(i)

\* a run up to the return of tpe_submit, under that scheduling; what
\* tpe_submit does depends neither on the working directory nor on what lies
\* in the destination's way
InitTpe == Init /\ cwd = DstDir /\ ~IsFile(Blocker)
NextTpe == Start \/ TpeStep \/ KeyboardInterrupt

SpecTpe == InitTpe /\ [][NextTpe]_vars /\ WF_vars(TpeStep)

(***************************************************************************)
(* get_info on its own: one file, of any content, under any name and       *)
(* directory of the model; a single call, whose outcome is kept in probe.  *)
(***************************************************************************)
ProbeParents == {<<"in">>, <<"in", "Screenshots">>, <<"dst", "2023">>}
ProbeSuffixes ==
    allowed_exts \cup {".JPG", ".PNG", ".txt", ".TXT", ""}

InitInfo ==
    /\ \E parent \in ProbeParents, suffix \in ProbeSuffixes, ino \in Inodes :
          /\ fs = (P(parent, "f", suffix) :> ino)
          /\ dirs = {<<"in">>, <<"dst">>} \cup Prefixes(parent)
    /\ src_dir \in DOMAIN fs
    /\ dst_dir = DstDir
    /\ cwd = DstDir
    /\ tree0 = [fs |-> fs, dirs |-> dirs]
    /\ allow_mtime = FALSE
    /\ run = 1
    /\ Fresh
    /\ prev = NoRun
    /\ probe = NoResult

\* the file get_info is called on
Probed == CHOOSE p \in DOMAIN fs : TRUE

CallGetInfo ==
    /\ probe = NoResult
    /\ probe' = [photo |-> Probed, out |-> get_info(Probed)]
    /\ UNCHANGED <<config, tree, plan, pc, items, submitted, future, result,
                   pending, done_now, completed, failed, interrupted>>

NextInfo == CallGetInfo

SpecInfo == InitInfo /\ [][NextInfo]_vars

(***************************************************************************)
(* The two extractors on their own: the tags of one image, or the general  *)
(* track of one video, in every combination of the texts below; a single   *)
(* call, whose input and outcome are kept in probe.                        *)
(***************************************************************************)
DateTags == <<"DateTimeOriginal", "DateTimeDigitized", "DateTime">>
OffsetTags == <<"OffsetTimeOriginal", "OffsetTimeDigitized", "OffsetTime">>

D1 == ExifText(2023, 6, 1, 12, 0, 0)
D2 == ExifText(2024, 1, 2, 3, 4, 5)
\* some software appends characters to the 19 of the standard
D1Suffixed == D1 \o <<"P", "M">>

\* what a tag may hold; None stands for a tag that is not there
DateTexts == {None, <<>>, D1, D2, D1Suffixed}
OffsetTexts ==
    [OffsetTimeOriginal |->
        {None, <<>>, OffsetText("+", 2, 0), OffsetText("-", 7, 0),
         OffsetText("+", 2, 0) \o <<"x">>, <<"0", "2", "0", "0">>},
     OffsetTimeDigitized |-> {None, OffsetText("+", 5, 30)},
     OffsetTime |-> {None, OffsetText("-", 8, 0), <<"+", "2">>}]

\* the dictionary of the tags that are there, given what each tag holds
TagDict(held) ==
    [t \in {u \in DOMAIN held : held[u] /= None} |-> held[t]]

ExifInputs ==
    {TagDict(held) :
        held \in [DateTimeOriginal : DateTexts, DateTimeDigitized : DateTexts,
                  DateTime : DateTexts,
                  OffsetTimeOriginal : OffsetTexts.OffsetTimeOriginal,
                  OffsetTimeDigitized : OffsetTexts.OffsetTimeDigitized,
                  OffsetTime : OffsetTexts.OffsetTime,
                  Make : {None, <<"X">>}]}

AppleTexts ==
    {None, <<>>,
     IsoText(2018, 10, 8, "T", 21, 24, 34) \o <<"-", "0", "7", "0", "0">>,
     IsoText(2018, 10, 8, "T", 21, 24, 34)}
EncodedTexts ==
    {None,
     UTC \o <<" ">> \o IsoText(2023, 6, 1, " ", 12, 0, 0),
     IsoText(2023, 6, 1, " ", 12, 0, 0) \o <<" ">> \o UTC,
     IsoText(2023, 6, 1, " ", 12, 0, 0)}
TaggedTexts == {None, UTC \o <<" ">> \o IsoText(2024, 1, 2, " ", 3, 4, 5)}

TrackInputs ==
    [comapplequicktimecreationdate : AppleTexts, encoded_date : EncodedTexts,
     tagged_date : TaggedTexts]

MetaPhoto == P(<<"in">>, "f", ".jpg")
MetaVideo == P(<<"in">>, "f", ".mp4")

InitMeta ==
    /\ fs = (MetaPhoto :> 1)
    /\ dirs = {<<"in">>, <<"dst">>}
    /\ src_dir = InDir
    /\ dst_dir = DstDir
    /\ cwd = DstDir
    /\ tree0 = [fs |-> fs, dirs |-> dirs]
    /\ allow_mtime = FALSE
    /\ run = 1
    /\ Fresh
    /\ prev = NoRun
    /\ \/ \E exif \in ExifInputs : probe = [via |-> "pillow", exif |-> exif, called |-> FALSE]
       \/ \E track \in TrackInputs :
             probe = [via |-> "mediainfo", track |-> track, called |-> FALSE]

CallPillow ==
    /\ probe.via = "pillow"
    /\ ~probe.called
    /\ probe' = [via |-> "pillow", exif |-> probe.exif, called |-> TRUE,
                 out |-> exif_info(MetaPhoto, probe.exif)]
    /\ UNCHANGED <<config, tree, plan, pc, items, submitted, future, result,
                   pending, done_now, completed, failed, interrupted>>

CallMediaInfo ==
    /\ probe.via = "mediainfo"
    /\ ~probe.called
    /\ probe' = [via |-> "mediainfo", track |-> probe.track, called |-> TRUE,
                 out |-> track_info(MetaVideo, probe.track)]
    /\ UNCHANGED <<config, tree, plan, pc, items, submitted, future, result,
                   pending, done_now, completed, failed, interrupted>>

NextMeta == CallPillow \/ CallMediaInfo

SpecMeta == InitMeta /\ [][NextMeta]_vars

(***************************************************************************)
(* Vocabulary of the properties.                                           *)
(***************************************************************************)
Range(f) == {f[i] : i \in DOMAIN f}

\* start() has sorted the two lists: the plan is final
Finalized == pc \in {"confirm", "rename", "renamed", "exit", "rename_failed"}
\* no file has been moved in this run yet
Planning == pc \in {"start", "submit", "wait", "collect", "reconcile", "confirm", "raised", "exit"}

Sources(tasks) == {tasks[k].photo_info.path : k \in DOMAIN tasks}
Destinations(tasks) == {tasks[k].destination : k \in DOMAIN tasks}
SkippedPaths(infos) == {infos[k].path : k \in DOMAIN infos}

\* a screenshot as the specification has it: by suffix or by directory name
IsScreenshot(photo) ==
    Lower(photo.suffix) \in screenshot_exts \/ ParentName(photo) = "Screenshots"

SkippedMessage == "Datetime extraction is skipped for this type of file"

(***************************************************************************)
(* C1.  Collision policy: of two files of one batch that plan to the same  *)
(* destination only the first is planned, the second is skipped with a     *)
(* 'Destination already exists' reason; so the final rename_tasks never    *)
(* holds two entries with the same destination.                            *)
(* The code compares a destination with the filesystem only, never with    *)
(* the other entries of the plan: a photo and its copy are both planned.   *)
(***************************************************************************)
C1_NoSharedDestination ==
    Finalized =>
        \A i, j \in DOMAIN rename_tasks :
            i /= j => rename_tasks[i].destination /= rename_tasks[j].destination

(***************************************************************************)
(* C4.  Cancellation: a KeyboardInterrupt at any point after tpe_submit is *)
(* called, the submissions included, makes tpe_submit return what was      *)
(* collected instead of raising, and every returned entry is the outcome   *)
(* of a task that really finished.                                         *)
(* The submissions are made before the try block is entered: an interrupt  *)
(* there leaves tpe_submit as an exception.                                *)
(***************************************************************************)
EntriesAreOutcomes ==
    /\ \A k \in DOMAIN completed :
          \E i \in DOMAIN items :
              /\ items[i] = completed[k][1]
              /\ future[i] = "finished"
              /\ ~result[i].raised
              /\ completed[k][2] = result[i].value
    /\ \A k \in DOMAIN failed :
          \E i \in DOMAIN items :
              /\ items[i] = failed[k][1]
              /\ future[i] = "finished"
              /\ result[i].raised
              /\ failed[k][2] = result[i].exc

C4_InterruptReturnsPartial ==
    interrupted => (pc /= "raised" /\ EntriesAreOutcomes)

(***************************************************************************)
(* C7.  A datetime that is naive or in another zone than the configured    *)
(* one aborts the run: no plan is offered at the prompt with the file      *)
(* merely listed among the skipped items.                                  *)
(* get_info's asserts raise inside the worker; tpe_submit catches the      *)
(* AssertionError like any Exception and the run goes on to the prompt.    *)
(***************************************************************************)
C7_InvariantViolationAborts ==
    pc = "confirm" =>
        \A k \in DOMAIN failed : failed[k][2].type /= "AssertionError"

(***************************************************************************)
(* C8.  A file whose suffix is in none of the three sets is never handed   *)
(* to a worker and is in neither list, whether the source root is a        *)
(* directory or a single file.                                             *)
(* iter_photo yields a single-file source root without looking at its      *)
(* suffix.                                                                 *)
(***************************************************************************)
C8_UnsupportedExcluded ==
    /\ \A i \in DOMAIN items : FileAllowed(items[i])
    /\ \A p \in Sources(rename_tasks) \cup SkippedPaths(skipped_items) : FileAllowed(p)

(***************************************************************************)
(* C10.  Every planned destination is                                      *)
(* dst_root/<year>/<prefix><YYYYMMDD_HHMMSS>_<hash7><suffix>, the prefix   *)
(* being 'Screenshot_' for a screenshot (by suffix or by parent directory) *)
(* and 'IMG_' otherwise.                                                   *)
(* _get_rename_task never passes a prefix: every name starts with 'IMG_'.  *)
(***************************************************************************)
ClaimedPrefix(photo) ==
    IF IsScreenshot(photo) THEN SCREENSHOT_PREFIX ELSE DEFAULT_PREFIX

ClaimedDestination(photo, dt) ==
    [parent |-> Parts(dst_dir) \o <<Pad4(dt.year)>>,
     stem |-> ClaimedPrefix(photo) \o strftime(dt) \o "_" \o Files[fs[photo]].sha1,
     suffix |-> Lower(photo.suffix)]

C10_DestinationShape ==
    pc = "confirm" =>
        \A k \in DOMAIN rename_tasks :
            LET t == rename_tasks[k]
            IN  t.destination = ClaimedDestination(t.photo_info.path, t.photo_info.datetime)

(***************************************************************************)
(* C2.  Idempotence: after a run has planned and executed its renames into *)
(* D, a second run with source D and the same options plans nothing.       *)
(* As stated this fails: a file the first run skipped because a misnamed   *)
(* file lay at its destination finds that destination vacated by the first *)
(* run's own moves.                                                        *)
(***************************************************************************)
C2_SecondRunPlansNothing ==
    (run = 2 /\ pc = "confirm") => rename_tasks = <<>>

(***************************************************************************)
(* C2, amended.  In the second run every file the first run moved lies at  *)
(* its destination, is in the batch and is dropped (in neither list); a    *)
(* file the second run does plan is one the first run did not have in its  *)
(* batch or skipped with 'Destination already exists'.                     *)
(***************************************************************************)
C2_MovedFilesAreDropped ==
    (run = 2 /\ pc = "confirm") =>
        /\ \A d \in Destinations(prev.rename_tasks) :
              /\ IsFile(d)
              /\ d \in Range(items)
              /\ d \notin Sources(rename_tasks) \cup SkippedPaths(skipped_items)
        /\ \A s \in Sources(rename_tasks) :
              \/ s \notin Range(prev.items)
              \/ \E k \in DOMAIN prev.skipped_items :
                    /\ prev.skipped_items[k].path = s
                    /\ prev.skipped_items[k].datetime /= NoneDt

C2_Witness ==
    /\ run = 2
    /\ pc = "confirm"
    /\ ~interrupted
    /\ prev.rename_tasks /= <<>>
    /\ Len(completed) = Len(items)
    /\ rename_tasks = <<>>
    /\ skipped_items = <<>>

(***************************************************************************)
(* C3.  Per-item failure isolation: without an interrupt tpe_submit        *)
(* returns, and then every item is exactly once in completed or failed: in *)
(* failed, with its exception, exactly when func raised on it, else in     *)
(* completed with what func returned for it.                               *)
(***************************************************************************)
Entries(xs, item) == {k \in DOMAIN xs : xs[k][1] = item}

EveryItemOnce ==
    \A i \in DOMAIN items :
        LET ok == Entries(completed, items[i])
            bad == Entries(failed, items[i])
        IN  /\ Cardinality(ok) + Cardinality(bad) = 1
            /\ result[i] = get_rename_task(items[i])
            /\ result[i].raised <=> bad /= {}
            /\ \A k \in bad : failed[k][2] = result[i].exc
            /\ \A k \in ok : completed[k][2] = result[i].value

C3_FailureIsolation ==
    /\ []((pc = "reconcile" /\ ~interrupted) => EveryItemOnce)
    /\ (pc = "submit") ~> (interrupted \/ pc = "reconcile")

C3_Witness ==
    /\ pc = "reconcile"
    /\ ~interrupted
    /\ completed /= <<>>
    /\ failed /= <<>>

(***************************************************************************)
(* C5.  Fallback gating: a file whose extraction yields no datetime makes  *)
(* _get_rename_task raise when allow_mtime is off (the file ends in        *)
(* skipped_items with datetime None and is not planned) and is planned     *)
(* from its mtime, datetime_source 'mtime', when it is on; a file whose    *)
(* extraction yields a datetime keeps it, whatever the flag.               *)
(***************************************************************************)
NoFallbackError ==
    [type |-> "Exception",
     msg |-> "Cannot determine datetime from EXIF/MediaInfo. Fallback to mtime is not allowed."]

C5_FallbackGating ==
    Planning =>
        \A i \in DOMAIN items :
            future[i] = "finished" =>
                LET e == get_info(items[i])
                    r == result[i]
                IN  /\ (~e.raised /\ e.value.datetime = NoneDt /\ ~allow_mtime) =>
                          /\ r.raised
                          /\ r.exc = NoFallbackError
                          /\ items[i] \notin Sources(rename_tasks)
                          /\ (pc = "confirm" /\ ~interrupted) =>
                                \E k \in DOMAIN skipped_items :
                                    /\ skipped_items[k].path = items[i]
                                    /\ skipped_items[k].datetime = NoneDt
                    /\ (~e.raised /\ e.value.datetime = NoneDt /\ allow_mtime) =>
                          /\ ~r.raised
                          /\ r.value.photo_info.datetime /= NoneDt
                          /\ r.value.photo_info.datetime_source = "mtime"
                    /\ (~e.raised /\ e.value.datetime /= NoneDt) =>
                          /\ ~r.raised
                          /\ r.value.photo_info = e.value
                          /\ r.value.photo_info.datetime_source /= "mtime"

C5_Witness ==
    /\ pc = "confirm"
    /\ ~allow_mtime
    /\ \E k \in DOMAIN skipped_items :
          /\ skipped_items[k].errors = <<Repr(NoFallbackError)>>
          /\ ~get_info(skipped_items[k].path).raised

(***************************************************************************)
(* C6.  Deterministic output order: without an interrupt the final         *)
(* rename_tasks and skipped_items are the same whatever the order in which *)
(* the tasks complete and are collected: what the batch, taken in          *)
(* ascending order of path, yields; both ascend by source path.            *)
(***************************************************************************)
IsPlanned(photo) ==
    LET r == get_rename_task(photo)
    IN  ~r.raised /\ Disposition(r.value) = "rename"

IsSkipped(photo) ==
    LET r == get_rename_task(photo)
    IN  r.raised \/ Disposition(r.value) = "skip"

ExpectedTasks ==
    LET ps == SelectSeq(items, IsPlanned)
    IN  [k \in 1..Len(ps) |-> get_rename_task(ps[k]).value]

ExpectedSkipped ==
    LET ps == SelectSeq(items, IsSkipped)
    IN  [k \in 1..Len(ps) |->
            LET r == get_rename_task(ps[k])
            IN  IF r.raised THEN no_datetime(ps[k], Repr(r.exc))
                ELSE AlreadyExists(r.value)]

Ascending(paths) ==
    \A k \in 1..(Len(paths) - 1) : PathLess(paths[k], paths[k + 1])

C6_DeterministicOrder ==
    (pc = "confirm" /\ ~interrupted) =>
        /\ rename_tasks = ExpectedTasks
        /\ skipped_items = ExpectedSkipped
        /\ Ascending([k \in DOMAIN rename_tasks |-> rename_tasks[k].photo_info.path])
        /\ Ascending([k \in DOMAIN skipped_items |-> skipped_items[k].path])

\* two tasks were collected in descending order of path
C6_Witness ==
    /\ pc = "confirm"
    /\ ~interrupted
    /\ Len(rename_tasks) = 2
    /\ Len(completed) = 2
    /\ PathLess(completed[2][1], completed[1][1])

(***************************************************************************)
(* C9.  Screenshot dispatch: get_info returns no_datetime('Datetime        *)
(* extraction is skipped for this type of file') for every file with a     *)
(* screenshot suffix or whose parent directory is named 'Screenshots',     *)
(* whatever its suffix.                                                    *)
(* As stated this fails: get_info looks at the suffix alone.               *)
(***************************************************************************)
C9_ScreenshotsAreSkipped ==
    probe /= NoResult =>
        (IsScreenshot(probe.photo) =>
            probe.out = Return(no_datetime(probe.photo, SkippedMessage)))

(***************************************************************************)
(* C9, amended.  get_info dispatches on the lowercased suffix alone, in    *)
(* any directory: a screenshot suffix gives no_datetime('Datetime          *)
(* extraction is skipped for this type of file'); an EXIF-like or          *)
(* container suffix gives the result of that extractor ('EXIF' or          *)
(* 'MediaInfo' as datetime_source, or that extractor's own reason) and     *)
(* never the skipped reason; any other suffix raises RuntimeError.         *)
(***************************************************************************)
C9_DispatchBySuffix ==
    probe /= NoResult =>
        LET photo == probe.photo
            out == probe.out
            ext == Lower(photo.suffix)
            meta == Files[fs[photo]].meta
            valid == meta.kind = "dt" /\ meta.dt.tzinfo = timezone
        IN  /\ ext \in screenshot_exts =>
                  out = Return(no_datetime(photo, SkippedMessage))
            /\ (ext \in pillow_exts /\ valid) =>
                  out = Return(PhotoInfo(photo, meta.dt, "EXIF"))
            /\ (ext \in mediainfo_exts /\ valid) =>
                  out = Return(PhotoInfo(photo, meta.dt, "MediaInfo"))
            /\ (ext \in pillow_exts \cup mediainfo_exts /\ ~out.raised) =>
                  out.value.errors /= <<SkippedMessage>>
            /\ ext \notin allowed_exts =>
                  (out.raised /\ out.exc.type = "RuntimeError")

\* a .jpg in a directory named Screenshots went to the EXIF extractor
C9_Witness ==
    /\ probe /= NoResult
    /\ ParentName(probe.photo) = "Screenshots"
    /\ Lower(probe.photo.suffix) = ".jpg"
    /\ ~probe.out.raised
    /\ probe.out.value.datetime_source = "EXIF"

(***************************************************************************)
(* Vocabulary of the extractor properties.                                 *)
(***************************************************************************)
PillowCalled == probe.via = "pillow" /\ probe.called
MediaInfoCalled == probe.via = "mediainfo" /\ probe.called

\* the first of the three date tags that is there, that holds a text that
\* is not empty ("" when there is none)
FirstPresent(exif) ==
    IF DateTags[1] \in DOMAIN exif THEN DateTags[1]
    ELSE IF DateTags[2] \in DOMAIN exif THEN DateTags[2]
    ELSE IF DateTags[3] \in DOMAIN exif THEN DateTags[3]
    ELSE ""
FirstNonEmpty(exif) ==
    IF Truthy(Get(exif, DateTags[1])) THEN DateTags[1]
    ELSE IF Truthy(Get(exif, DateTags[2])) THEN DateTags[2]
    ELSE IF Truthy(Get(exif, DateTags[3])) THEN DateTags[3]
    ELSE ""

\* the dictionary without its date tags other than tag, without its offset tags
Only(exif, tag) ==
    [t \in (DOMAIN exif \ Range(DateTags)) \cup {tag} |-> exif[t]]
WithoutOffsets(exif) == [t \in DOMAIN exif \ Range(OffsetTags) |-> exif[t]]

\* the local reading a date text of the model stands for
Reading(text) == IF text = D2 THEN T2 ELSE T1

\* the result is the one the tag alone gives, and, read without an offset,
\* the local time its text spells
Uses(exif, out, tag) ==
    /\ out = exif_info(MetaPhoto, Only(exif, tag))
    /\ DOMAIN exif \cap Range(OffsetTags) = {} =>
          out = Return(PhotoInfo(MetaPhoto, Reading(exif[tag]), "EXIF"))

WellFormedOffset(text) == Len(text) = 6 /\ OffsetMatch(text)

C12_MalformedOffsetIgnored ==
    PillowCalled =>
        LET exif == probe.exif
            offsets == DOMAIN exif \cap Range(OffsetTags)
        IN  (/\ FirstPresent(exif) /= ""
             /\ offsets /= {}
             /\ \A t \in offsets : ~WellFormedOffset(exif[t])) =>
                probe.out = exif_info(MetaPhoto, WithoutOffsets(exif))

(***************************************************************************)
(* Instants, to compare a result with its input: the minutes between       *)
(* 2000-01-01 00:00 UTC and the instant that reads dt where the offset     *)
(* from UTC is offset minutes; the offset of the configured zone at a      *)
(* local reading.                                                          *)
(***************************************************************************)
DaysBeforeMonth == <<0, 31, 59, 90, 120, 151, 181, 212, 243, 273, 304, 334>>
DaysBeforeYear(y) ==
    365 * (y - 2000) + Cardinality({z \in 2000..(y - 1) : IsLeap(z)})
DayNumber(dt) ==
    DaysBeforeYear(dt.year) + DaysBeforeMonth[dt.month]
      + (IF dt.month > 2 /\ IsLeap(dt.year) THEN 1 ELSE 0) + (dt.day - 1)
Instant(dt, offset) ==
    [minutes |-> DayNumber(dt) * 1440 + dt.hour * 60 + dt.minute - offset,
     second |-> dt.second]
ZoneOffset(dt) == IF dt.month \in 4..10 THEN 0 - 420 ELSE 0 - 480

\* the minutes a well-formed offset text stands for
OffsetMinutes(text) ==
    (IF text[1] = "-" THEN 0 - 1 ELSE 1) * (Num2(text, 2) * 60 + Num2(text, 5))

\* the first offset tag that is there ("" when there is none)
FirstOffset(exif) ==
    IF OffsetTags[1] \in DOMAIN exif THEN OffsetTags[1]
    ELSE IF OffsetTags[2] \in DOMAIN exif THEN OffsetTags[2]
    ELSE IF OffsetTags[3] \in DOMAIN exif THEN OffsetTags[3]
    ELSE ""

\* the date the general track is read from, and what its text spells
TrackText(track) ==
    IF Truthy(track.comapplequicktimecreationdate)
    THEN track.comapplequicktimecreationdate
    ELSE Or(track.encoded_date, track.tagged_date)
TrackReading(text) ==
    IF text \in AppleTexts THEN DT(2018, 10, 8, 21, 24, 34, "None")
    ELSE IF text \in TaggedTexts THEN DT(2024, 1, 2, 3, 4, 5, "None")
    ELSE DT(2023, 6, 1, 12, 0, 0, "None")
TrackOffset(text) == IF Len(text) = 24 THEN 0 - 420 ELSE 0
Marked(text) == StartsWith(text, UTC) \/ EndsWith(text, UTC)

\* out is an aware datetime of the configured zone for the given instant
IsInstant(out, instant) ==
    /\ ~out.raised
    /\ out.value.datetime /= NoneDt
    /\ out.value.datetime.tzinfo = timezone
    /\ Instant(out.value.datetime, ZoneOffset(out.value.datetime)) = instant

(***************************************************************************)
(* C13.  Naive-instant asymmetry: an EXIF date T with no valid offset      *)
(* gives the instant that reads exactly T in the configured zone; a        *)
(* container date T marked UTC, or without offset, gives the instant that  *)
(* reads T in UTC (T+k locally); a date with an offset, from either        *)
(* source, gives the instant it denotes.  Every result is aware and in the *)
(* configured zone.                                                        *)
(* The EXIF part fails on the input of C12: the offset '+02:00x' is not    *)
(* valid, yet the extractor raises instead of reading T as local time.     *)
(***************************************************************************)
C13_NaiveInstantAsymmetry ==
    /\ PillowCalled =>
          LET exif == probe.exif
              first == FirstNonEmpty(exif)
              offsets == DOMAIN exif \cap Range(OffsetTags)
              off == FirstOffset(exif)
          IN  first /= "" =>
                /\ (\A t \in offsets : ~WellFormedOffset(exif[t])) =>
                      probe.out = Return(PhotoInfo(MetaPhoto, Reading(exif[first]), "EXIF"))
                /\ (off /= "" /\ WellFormedOffset(exif[off])) =>
                      IsInstant(probe.out,
                                Instant(Reading(exif[first]), OffsetMinutes(exif[off])))
    /\ MediaInfoCalled =>
          LET text == TrackText(probe.track)
          IN  (Truthy(text) /\ (text \in AppleTexts \/ Marked(text))) =>
                /\ IsInstant(probe.out, Instant(TrackReading(text), TrackOffset(text)))
                /\ probe.out.value.datetime_source = "MediaInfo"
    /\ (probe.called /\ ~probe.out.raised /\ probe.out.value.datetime /= NoneDt) =>
          probe.out.value.datetime.tzinfo = timezone

(***************************************************************************)
(* Vocabulary of the execution properties.                                 *)
(***************************************************************************)
Source(k) == rename_tasks[k].photo_info.path
Destination(k) == rename_tasks[k].destination

\* the file at path holds the content its name says: the hash in the name
\* planned for entry k is the hash of what lies there
HoldsContentOf(path, k) ==
    /\ IsFile(path)
    /\ fs[path] \in DOMAIN Files
    /\ get_deterministic_filename(path, rename_tasks[k].photo_info.datetime,
                                  DEFAULT_PREFIX).value.stem = Destination(k).stem

\* the exception mkdir or rename raises for entry k
FailureOf(k) ==
    {Raise("FileExistsError", "File exists: " \o JoinParts(Destination(k).parent)),
     NotFound(Source(k))}

(***************************************************************************)
(* C14.  Execution failure handling: when mkdir or rename fails for the    *)
(* k-th entry, the exception that leaves _do_rename is the one of that     *)
(* entry, and every entry before it stays moved: its source path is        *)
(* vacant, its destination holds a file of the planned content.  Nothing   *)
(* is rolled back.                                                         *)
(***************************************************************************)
C14_NoRollback ==
    pc = "rename_failed" =>
        /\ moved < Len(rename_tasks)
        /\ rename_error \in FailureOf(moved + 1)
        /\ \A j \in 1..moved :
              /\ ~IsFile(Source(j))
              /\ HoldsContentOf(Destination(j), j)

\* the second entry failed after the first was moved
C14_Witness ==
    /\ pc = "rename_failed"
    /\ moved = 1
    /\ rename_error.exc.type = "FileExistsError"
    /\ IsFile(Destination(1))

(***************************************************************************)
(* C15.  Reconciliation disposition: after an uninterrupted                *)
(* _prepare_rename_tasks every file of the batch has exactly one outcome,  *)
(* decided by the filesystem as the reconciler finds it: (a) completed,    *)
(* destination absent: one entry in rename_tasks; (b) completed,           *)
(* destination is the file itself: in neither list; (c) completed,         *)
(* destination is another file: one entry in skipped_items whose errors    *)
(* end with 'Destination already exists: <destination>'; (d) failed: one   *)
(* entry in skipped_items with datetime None and errors = [repr(error)].   *)
(* No source path is in both lists or twice in one.                        *)
(***************************************************************************)
TasksOf(photo) == {k \in DOMAIN rename_tasks : Source(k) = photo}
SkipsOf(photo) == {k \in DOMAIN skipped_items : skipped_items[k].path = photo}
Last(xs) == xs[Len(xs)]

C15_ReconciliationDisposition ==
    (pc = "confirm" /\ ~interrupted) =>
        \A i \in DOMAIN items :
            LET photo == items[i]
                r == result[i]
                nt == Cardinality(TasksOf(photo))
                ns == Cardinality(SkipsOf(photo))
                dest == r.value.destination
            IN  /\ nt + ns <= 1
                /\ future[i] = "finished"
                /\ (~r.raised /\ ~Exists(dest)) =>
                      /\ nt = 1
                      /\ \A k \in TasksOf(photo) : rename_tasks[k] = r.value
                /\ (~r.raised /\ Exists(dest) /\ SameFile(dest, photo)) => nt + ns = 0
                /\ (~r.raised /\ Exists(dest) /\ ~SameFile(dest, photo)) =>
                      /\ ns = 1
                      /\ \A k \in SkipsOf(photo) :
                            /\ skipped_items[k].errors /= <<>>
                            /\ Last(skipped_items[k].errors) =
                                  "Destination already exists: " \o PathStr(dest)
                /\ r.raised =>
                      /\ ns = 1
                      /\ \A k \in SkipsOf(photo) :
                            /\ skipped_items[k].datetime = NoneDt
                            /\ skipped_items[k].errors = <<Repr(r.exc)>>

\* one file of the batch was planned, another skipped for its destination
C15_Witness ==
    /\ pc = "confirm"
    /\ ~interrupted
    /\ Len(rename_tasks) = 1
    /\ \E k \in DOMAIN skipped_items :
          /\ skipped_items[k].datetime /= NoneDt
          /\ skipped_items[k].errors /= <<>>

(***************************************************************************)
(* C16.  Execution order and result: _do_rename takes the entries of the   *)
(* final rename_tasks one at a time, in order (the first `moved` entries   *)
(* are moved, the others untouched); the parent directory of a             *)
(* destination exists when the move is made; after an execution without   *)
(* failure every source path is vacant and every destination holds the     *)
(* file that was the source of its entry.                                  *)
(* The last part fails when two entries share a destination (C1): the      *)
(* destination holds the file of the later entry only.                     *)
(***************************************************************************)
InOrder ==
    /\ \A j \in 1..moved : Destination(j).parent \in dirs
    /\ \A j \in (moved + 1)..Len(rename_tasks) :
          /\ IsFile(Source(j))
          /\ fs[Source(j)] = tree0.fs[Source(j)]

C16_ExecutionOrderAndResult ==
    pc \in {"rename", "renamed"} =>
        /\ InOrder
        /\ pc = "renamed" =>
              /\ moved = Len(rename_tasks)
              /\ \A k \in DOMAIN rename_tasks :
                    /\ ~IsFile(Source(k))
                    /\ IsFile(Destination(k))
                    /\ fs[Destination(k)] = tree0.fs[Source(k)]

(***************************************************************************)
(* C17.  Executing a plan never destroys a file: every file that was there *)
(* when the run started is still there during and after _do_rename, at its *)
(* path or at a destination planned for it; no move replaces a file.       *)
(* Path.rename replaces what lies at the destination: of two entries with  *)
(* one destination (C1) the file moved first is lost.                      *)
(***************************************************************************)
PlannedFor(path) == {Destination(k) : k \in TasksOf(path)}

C17_NoFileDestroyed ==
    pc \in {"rename", "renamed", "rename_failed"} =>
        \A path \in DOMAIN tree0.fs :
            \E q \in {path} \cup PlannedFor(path) :
                IsFile(q) /\ fs[q] = tree0.fs[path]

(***************************************************************************)
(* C18.  Once tpe_submit has handled an interrupt, no queued task is left  *)
(* (they are cancelled) and no task starts; tasks in flight may finish,    *)
(* but completed and failed no longer change, and rename_tasks and         *)
(* skipped_items hold only files that were collected before the return.    *)
(***************************************************************************)
Handled == interrupted /\ pc /= "raised"
Collected == {completed[k][1] : k \in DOMAIN completed} \cup {failed[k][1] : k \in DOMAIN failed}

C18_NoWorkAfterInterrupt ==
    /\ [](Handled =>
            /\ \A i \in DOMAIN future : future[i] \notin {"new", "queued"}
            /\ Sources(rename_tasks) \cup SkippedPaths(skipped_items) \subseteq Collected)
    /\ [][Handled =>
            /\ DOMAIN future' = DOMAIN future
            /\ \A i \in DOMAIN future :
                  /\ future'[i] = "running" => future[i] = "running"
                  /\ future[i] = "cancelled" => future'[i] = "cancelled"
            /\ completed' = completed
            /\ failed' = failed]_vars

\* a task that was in flight finished after the return and is in no list,
\* another was cancelled
C18_Witness ==
    /\ Handled
    /\ pc = "confirm"
    /\ \E i \in DOMAIN future : future[i] = "finished" /\ items[i] \notin Collected
    /\ \E i \in DOMAIN future : future[i] = "cancelled"

(***************************************************************************)
(* Vocabulary of the frame properties: the media tree is what lies under   *)
(* the source root or the destination root.                                *)
(***************************************************************************)
InRoots(path) ==
    \/ path = src_dir
    \/ IsUnder(path, Parts(src_dir))
    \/ IsUnder(path, Parts(dst_dir))
MediaFiles(files) == [path \in {q \in DOMAIN files : InRoots(q)} |-> files[path]]

\* files keeps every file of before, and every other file of it is a
\* report: a .log or .csv file directly in the working directory
OnlyReportsAdded(before, files) ==
    /\ \A path \in DOMAIN before : path \in DOMAIN files /\ files[path] = before[path]
    /\ \A path \in DOMAIN files \ DOMAIN before :
          /\ path.parent = Parts(cwd)
          /\ path.suffix \in {".log", ".csv"}

AtPrompt == pc = "confirm" /\ pc' = "confirm"
Saved == IsFile(RenameTasksCsv) /\ IsFile(SkippedItemsCsv)

\* what holds of the prompt whatever is answered
PromptLifecycle ==
    /\ [](pc = "confirm" =>
            /\ done_now = {}
            /\ moved = 0
            /\ Ascending([k \in DOMAIN rename_tasks |-> Source(k)])
            /\ Ascending([k \in DOMAIN skipped_items |-> skipped_items[k].path]))
    /\ [][(pc' = "confirm" /\ pc /= "confirm") => pc = "reconcile"]_vars
    /\ [][(pc = "confirm" /\ pc' /= "confirm") => pc' \in {"rename", "exit"}]_vars
    /\ [][(pc' = "rename" /\ pc /= "rename") => (pc = "confirm" /\ moved = 0)]_vars
    /\ [][(pc \in {"rename", "renamed", "rename_failed", "exit"}) =>
            (pc' /= "confirm" /\ (pc' = "rename" => pc = "rename"))]_vars

C20_PlanningLeavesTreeUnchanged ==
    Planning =>
        /\ MediaFiles(fs) = MediaFiles(tree0.fs)
        /\ dirs = tree0.dirs

(***************************************************************************)
(* C20, amended.  From the start of a run until the user chooses rename no *)
(* file or directory that was there is moved, renamed, changed or deleted  *)
(* and no directory is created; the only files created are the run's log   *)
(* file and, on save, the two tables, all directly in the working          *)
(* directory, and none before start() has its final lists.                 *)
(***************************************************************************)
C20_PlanningAddsOnlyReports ==
    Planning =>
        /\ dirs = tree0.dirs
        /\ OnlyReportsAdded(tree0.fs, fs)
        /\ (pc \in {"start", "submit", "wait", "collect", "reconcile", "raised"}) =>
              fs = tree0.fs

\* the user aborted at the prompt; the log file lies in the destination root
C20_Witness ==
    /\ pc = "exit"
    /\ cwd = dst_dir
    /\ rename_tasks /= <<>>
    /\ IsFile(LogFile)
    /\ fs /= tree0.fs

(***************************************************************************)
(* Vocabulary of the result records: the PhotoInfo objects a state holds   *)
(* are those of the outcomes of the finished futures, of completed, of     *)
(* rename_tasks and of skipped_items, and the one get_info hands to a      *)
(* worker that is running.                                                 *)
(***************************************************************************)
Outcomes ==
    {result[i].value.photo_info :
        i \in {j \in DOMAIN result : future[j] = "finished" /\ ~result[j].raised}}
Extracted ==
    {get_info(items[i]).value :
        i \in {j \in DOMAIN future : future[j] = "running" /\ ~get_info(items[j]).raised}}
PhotoInfos ==
    Outcomes \cup Extracted
        \cup {completed[k][2].photo_info : k \in DOMAIN completed}
        \cup {rename_tasks[k].photo_info : k \in DOMAIN rename_tasks}
        \cup Range(skipped_items)

(***************************************************************************)
(* C21.  Result records: in every reachable state every PhotoInfo has      *)
(* datetime None exactly when datetime_source is None, every PhotoInfo     *)
(* with datetime None carries at least one error string, every entry of    *)
(* rename_tasks has a photo_info with a datetime and an empty errors list, *)
(* and every entry of skipped_items carries at least one error string.     *)
(***************************************************************************)
C21_ResultRecords ==
    /\ \A info \in PhotoInfos :
          /\ info.datetime = NoneDt <=> info.datetime_source = "None"
          /\ info.datetime = NoneDt => Len(info.errors) >= 1
          /\ \A k \in DOMAIN info.errors : info.errors[k] /= ""
    /\ \A k \in DOMAIN rename_tasks :
          /\ rename_tasks[k].photo_info.datetime /= NoneDt
          /\ rename_tasks[k].photo_info.errors = <<>>
    /\ \A k \in DOMAIN skipped_items : Len(skipped_items[k].errors) >= 1

\* the plan holds a task and a skipped item without datetime
C21_Witness ==
    /\ pc = "confirm"
    /\ rename_tasks /= <<>>
    /\ \E k \in DOMAIN skipped_items :
          /\ skipped_items[k].datetime = NoneDt
          /\ skipped_items[k].datetime_source = "None"

(***************************************************************************)
(* Vocabulary of the workers: func(item) has been called for an item once  *)
(* its future is running or finished; a step is a worker's when it starts  *)
(* or ends such a call.                                                    *)
(***************************************************************************)
Invoked(fut, i) == fut[i] \in {"running", "finished"}
SameBatch == run' = run /\ DOMAIN future' = DOMAIN future
WorkerStep ==
    /\ SameBatch
    /\ \E i \in DOMAIN future :
          \/ future[i] = "queued" /\ future'[i] = "running"
          \/ future[i] = "running" /\ future'[i] = "finished"
Returned == pc \in {"reconcile", "confirm", "rename", "renamed", "rename_failed", "exit"}
EntriesOf(item) ==
    Cardinality(Entries(completed, item)) + Cardinality(Entries(failed, item))

(***************************************************************************)
(* C22.  Worker ownership: in a run func is called at most once for each   *)
(* submitted item, and exactly once when the run is not interrupted; a     *)
(* worker's step changes none of completed, failed, rename_tasks and       *)
(* skipped_items, which only the main thread appends to (completed and     *)
(* failed in the for loop of tpe_submit, the two lists after it has        *)
(* returned); so no item has more than one entry, and in a run that is not *)
(* interrupted every item has exactly one.                                 *)
(***************************************************************************)
C22_WorkerOwnership ==
    /\ [][SameBatch =>
            \A i \in DOMAIN future :
                /\ (future'[i] = "running" /\ future[i] /= "running") => future[i] = "queued"
                /\ future[i] = "queued" => future'[i] \in {"queued", "running", "cancelled"}
                /\ future[i] = "running" => future'[i] \in {"running", "finished"}
                /\ future[i] \in {"finished", "cancelled"} => future'[i] = future[i]
                /\ result'[i] /= result[i] => (future[i] = "running" /\ future'[i] = "finished")]_vars
    /\ [][WorkerStep =>
            /\ completed' = completed
            /\ failed' = failed
            /\ rename_tasks' = rename_tasks
            /\ skipped_items' = skipped_items
            /\ pc' = pc]_vars
    /\ [][SameBatch =>
            /\ (completed' /= completed \/ failed' /= failed) => pc = "collect"
            /\ (rename_tasks' /= rename_tasks \/ skipped_items' /= skipped_items) =>
                  pc = "reconcile"]_vars
    /\ [](\A i \in DOMAIN items :
            /\ EntriesOf(items[i]) <= 1
            /\ EntriesOf(items[i]) = 1 => Invoked(future, i)
            /\ (Returned /\ ~interrupted) =>
                  (future[i] = "finished" /\ EntriesOf(items[i]) = 1))

\* the run, not interrupted, has returned with an entry for each of two
\* items, the second of which was collected before the first
C22_Witness ==
    /\ pc = "reconcile"
    /\ ~interrupted
    /\ Len(items) = 2
    /\ Len(completed) = 2
    /\ completed[1][1] = items[2]
    /\ completed[2][1] = items[1]

====
